---- MODULE Spec2Model ----
(***************************************************************************)
(* One invocation of the Answer Processor (process_answer.py): a linear    *)
(* script run as a subprocess.  The state is the interpreter's variables,  *)
(* the temporary file on disk, the two output streams and the exit status. *)
(* Strings are TLA+ strings; Len, SubSeq and \o act on their characters.   *)
(***************************************************************************)
EXTENDS Integers, Sequences, FiniteSets

VARIABLES
    pc,                 \* position in the script
    argv,               \* sys.argv
    inputExists,        \* whether the file named by argv[1] is on disk
    audio_path,         \* the script's audio_path variable
    input_ext,          \* the script's input_ext variable
    temp_wav_path,      \* the script's temp_wav_path variable
    tempExists,         \* whether the file made by mkstemp is on disk
    ffmpegCalls,        \* how many times subprocess.run(["ffmpeg", ...]) ran
    modelLoaded,        \* whether WhisperModel(...) was constructed
    transcribed,        \* the paths handed to model.transcribe, in order
    transcript,         \* the script's transcript variable
    transcription_time, \* time.time() - start_time, in milliseconds
    word_count,         \* the script's word_count variable
    feedback,           \* the script's feedback variable
    exc,                \* the message of the exception being propagated
    stdout,             \* the lines written to standard output
    stderr,             \* the lines written to standard error
    exit_code           \* the process's exit status, Running until it exits

vars == <<pc, argv, inputExists, audio_path, input_ext, temp_wav_path,
          tempExists, ffmpegCalls, modelLoaded, transcribed, transcript,
          transcription_time, word_count, feedback, exc, stdout, stderr,
          exit_code>>

(***************************************************************************)
(* Bounds of the model.                                                    *)
(***************************************************************************)
\* the largest number of filler words in a recognised segment
MaxFill == 101

(***************************************************************************)
(* Python values and string methods.                                       *)
(***************************************************************************)
None == "<None>"
Unset == "<unset>"
Running == -1

Truthy(x) == x # None /\ x # ""

Chr(s, i) == SubSeq(s, i, i)

\* sub in s  /  s.find(sub) != -1
Contains(s, sub) ==
    \E i \in 0..(Len(s) - Len(sub)) : SubSeq(s, i + 1, i + Len(sub)) = sub

UpperAlpha == "ABCDEFGHIJKLMNOPQRSTUVWXYZ"
LowerAlpha == "abcdefghijklmnopqrstuvwxyz"

LowerChar(c) ==
    IF \E i \in 1..Len(UpperAlpha) : Chr(UpperAlpha, i) = c
    THEN Chr(LowerAlpha, CHOOSE i \in 1..Len(UpperAlpha) : Chr(UpperAlpha, i) = c)
    ELSE c

\* str.lower()
RECURSIVE ToLower(_)
ToLower(s) ==
    IF Len(s) = 0 THEN ""
    ELSE IF Len(s) = 1 THEN LowerChar(s)
    ELSE LET h == Len(s) \div 2
         IN  ToLower(SubSeq(s, 1, h)) \o ToLower(SubSeq(s, h + 1, Len(s)))

IsSpace(c) == c \in {" ", "\t", "\n", "\r"}

\* len(s.split()): the number of maximal runs of non-whitespace characters
SplitCount(s) ==
    Cardinality({i \in 1..Len(s) :
                    /\ ~IsSpace(Chr(s, i))
                    /\ (i = 1 \/ IsSpace(Chr(s, i - 1)))})

\* str.strip()
Strip(s) ==
    LET keep == {i \in 1..Len(s) : ~IsSpace(Chr(s, i))}
    IN  IF keep = {} THEN ""
        ELSE SubSeq(s, CHOOSE i \in keep : \A j \in keep : i <= j,
                       CHOOSE i \in keep : \A j \in keep : i >= j)

\* " ".join(texts)
RECURSIVE Join(_)
Join(texts) ==
    IF Len(texts) = 0 THEN ""
    ELSE IF Len(texts) = 1 THEN texts[1]
    ELSE texts[1] \o " " \o Join(Tail(texts))

\* os.path.splitext(p)[1]: from the last dot of the last path component,
\* unless that component has no character other than dots before it
SplitExt(p) ==
    LET seps  == {i \in 1..Len(p) : Chr(p, i) = "/"}
        sep   == IF seps = {} THEN 0
                 ELSE CHOOSE i \in seps : \A j \in seps : i >= j
        dots  == {i \in (sep + 1)..Len(p) : Chr(p, i) = "."}
        dot   == IF dots = {} THEN 0
                 ELSE CHOOSE i \in dots : \A j \in dots : i >= j
    IN  IF dot > sep /\ (\E k \in (sep + 1)..(dot - 1) : Chr(p, k) # ".")
        THEN SubSeq(p, dot, Len(p))
        ELSE ""

(***************************************************************************)
(* The script's literals.                                                  *)
(***************************************************************************)
ConvertExts == {".webm", ".ogg", ".m4a", ".mp3", ".opus"}

ShortLimit == 10
LongLimit == 100

FeedbackDefault == "Good response! Keep practicing to improve your interview skills."
FeedbackShort == "Try to provide more detailed answers with specific examples."
FeedbackLong == "Good detailed response! Try to be more concise while keeping key points."
FeedbackKeyword == "Great job mentioning specific experience! This adds credibility to your answer."
FeedbackError == "Error processing audio. Please try again."

FfmpegMissingMsg == "FFmpeg not found. Please install FFmpeg and ensure it is in your PATH."
FfmpegFailedPrefix == "FFmpeg failed to convert audio: "

\* the file name tempfile.mkstemp(suffix=".wav") returns
TempPath == "/tmp/tmpk3x9.wav"

(***************************************************************************)
(* What the caller and the environment supply.                             *)
(***************************************************************************)
Script == "process_answer.py"
Question == "Tell me about yourself"

AudioPaths == {"a.wav", "answer.webm", "REC.MP3", "talk.mp3.wav", ".ogg",
               "No module named.opus"}

Argvs == {<<Script>>}
            \cup {<<Script, p>> : p \in {"a.wav"}}
            \cup {<<Script, p, Question>> : p \in AudioPaths}

\* n filler words, each with the leading space the recogniser emits
RECURSIVE Fill(_)
Fill(n) == IF n = 0 THEN "" ELSE " a" \o Fill(n - 1)

KeywordSegs == {" well", " my Experience", " PROJECTS", " ex perience"}

\* the texts of the segments the recogniser can yield
SegmentLists == {<<>>} \cup {<<Fill(n), k>> : n \in 0..MaxFill, k \in KeywordSegs}

\* time.time() - start_time, in milliseconds
Elapsed == {0, 125, 1234}

ImportErrorMsg == "No module named 'faster_whisper'"
IndexErrorMsg == "list index out of range"
ModelLoadErrors == {"No module named 'ctranslate2'",
                    "Connection timeout while fetching the model",
                    "Unable to open file 'model.bin'"}
TranscribeErrors == {"Request Timeout", "Invalid data found when processing input"}
NoSuchFileMsg(p) == "[Errno 2] No such file or directory: '" \o p \o "'"

\* str(subprocess.CalledProcessError) for the ffmpeg command line
CalledProcessErrorMsg(src, dst) ==
    "Command '['ffmpeg', '-y', '-i', '" \o src
        \o "', '-ac', '1', '-ar', '16000', '" \o dst
        \o "']' returned non-zero exit status 1."

(***************************************************************************)
(* Output lines.                                                           *)
(***************************************************************************)
Diag(text, value) == [kind |-> "diag", text |-> text, value |-> value]
Json(obj) == [kind |-> "json", obj |-> obj]

\* round(t, 2) of a time in milliseconds, in hundredths of a second; which way
\* a value halfway between two hundredths goes depends on its binary expansion
Round2(ms) ==
    IF ms % 10 = 5 THEN {ms \div 10, ms \div 10 + 1}
    ELSE IF ms % 10 < 5 THEN {ms \div 10}
    ELSE {ms \div 10 + 1}

\* Heuristic with the keyword test placed before the length tests
HeuristicKeywordFirst(text, n) ==
    IF Contains(ToLower(text), "experience") \/ Contains(ToLower(text), "project")
    THEN FeedbackKeyword
    ELSE IF n < ShortLimit THEN FeedbackShort
    ELSE IF n > LongLimit THEN FeedbackLong
    ELSE FeedbackDefault

\* the feedback chosen at lines 59-68
Heuristic(text, n) ==
    IF n < ShortLimit THEN FeedbackShort
    ELSE IF n > LongLimit THEN FeedbackLong
    ELSE IF Contains(ToLower(text), "experience") \/ Contains(ToLower(text), "project")
         THEN FeedbackKeyword
    ELSE FeedbackDefault

\* the output dict of lines 71-76
Output(text, fb, pt, n) ==
    [transcript |-> text, feedback |-> fb, processing_time |-> pt, word_count |-> n]

\* ErrorMsg with the 'FFmpeg' test placed before the 'No module named' test
ErrorMsgFfmpegFirst(msg) ==
    IF Contains(msg, "FFmpeg") THEN "FFmpeg not found. Please install FFmpeg."
    ELSE IF Contains(msg, "No module named") THEN "Missing dependency: " \o msg
    ELSE IF Contains(msg, "No such file") THEN "Audio file not found or corrupted."
    ELSE IF Contains(ToLower(msg), "timeout") THEN "Processing timeout. Try a shorter recording."
    ELSE "Audio processing error: " \o msg

\* the error_msg chosen at lines 88-98
ErrorMsg(msg) ==
    IF Contains(msg, "No module named") THEN "Missing dependency: " \o msg
    ELSE IF Contains(msg, "FFmpeg") THEN "FFmpeg not found. Please install FFmpeg."
    ELSE IF Contains(msg, "No such file") THEN "Audio file not found or corrupted."
    ELSE IF Contains(ToLower(msg), "timeout") THEN "Processing timeout. Try a shorter recording."
    ELSE "Audio processing error: " \o msg

\* the error_output dict of lines 100-106
ErrorOutput(msg) ==
    [transcript |-> "", feedback |-> FeedbackError, error |-> ErrorMsg(msg),
     processing_time |-> 0, word_count |-> 0]

(***************************************************************************)
(* The state after the interpreter starts the script.                      *)
(***************************************************************************)
Init ==
    /\ pc = "import"
    /\ argv \in Argvs
    /\ inputExists \in BOOLEAN
    /\ audio_path = Unset
    /\ input_ext = Unset
    /\ temp_wav_path = Unset
    /\ tempExists = FALSE
    /\ ffmpegCalls = 0
    /\ modelLoaded = FALSE
    /\ transcribed = <<>>
    /\ transcript = Unset
    /\ transcription_time = 0
    /\ word_count = 0
    /\ feedback = Unset
    /\ exc = ""
    /\ stdout = <<>>
    /\ stderr = <<>>
    /\ exit_code = Running

\* an exception raised inside the try block: control goes to line 86
Raise(msg) ==
    /\ exc' = msg
    /\ pc' = "except"

(***************************************************************************)
(* The steps of the script.                                                *)
(***************************************************************************)
\* lines 1-7: the imports, outside the try block
Import ==
    /\ pc = "import"
    /\ \E installed \in BOOLEAN :
         IF installed
         THEN /\ pc' = "args"
              /\ UNCHANGED <<stderr, exit_code>>
         ELSE /\ pc' = "done"
              /\ stderr' = Append(stderr, Diag("Traceback", ImportErrorMsg))
              /\ exit_code' = 1
    /\ UNCHANGED <<argv, inputExists, audio_path, input_ext, temp_wav_path,
                   tempExists, ffmpegCalls, modelLoaded, transcribed, transcript,
                   transcription_time, word_count, feedback, exc, stdout>>

\* lines 11-12
ReadArgs ==
    /\ pc = "args"
    /\ IF Len(argv) >= 3
       THEN /\ audio_path' = argv[2]
            /\ pc' = "log"
            /\ UNCHANGED exc
       ELSE /\ IF Len(argv) >= 2 THEN audio_path' = argv[2]
                                 ELSE UNCHANGED audio_path
            /\ Raise(IndexErrorMsg)
    /\ UNCHANGED <<argv, inputExists, input_ext, temp_wav_path, tempExists,
                   ffmpegCalls, modelLoaded, transcribed, transcript,
                   transcription_time, word_count, feedback, stdout, stderr,
                   exit_code>>

\* DebugLog with file=sys.stderr left out of the four print calls
DebugLogToStdout ==
    /\ pc = "log"
    /\ stdout' = stdout \o << Diag("Python script started", ""),
                              Diag("Audio path", audio_path),
                              Diag("Question length", Len(argv[3])),
                              Diag("Audio file exists", inputExists) >>
    /\ pc' = "ext"
    /\ UNCHANGED <<argv, inputExists, audio_path, input_ext, temp_wav_path,
                   tempExists, ffmpegCalls, modelLoaded, transcribed, transcript,
                   transcription_time, word_count, feedback, exc, stderr,
                   exit_code>>

\* lines 15-18
DebugLog ==
    /\ pc = "log"
    /\ stderr' = stderr \o << Diag("Python script started", ""),
                              Diag("Audio path", audio_path),
                              Diag("Question length", Len(argv[3])),
                              Diag("Audio file exists", inputExists) >>
    /\ pc' = "ext"
    /\ UNCHANGED <<argv, inputExists, audio_path, input_ext, temp_wav_path,
                   tempExists, ffmpegCalls, modelLoaded, transcribed, transcript,
                   transcription_time, word_count, feedback, exc, stdout,
                   exit_code>>

\* InputExt with .lower() left out
InputExtNoLower ==
    /\ pc = "ext"
    /\ input_ext' = SplitExt(audio_path)
    /\ temp_wav_path' = None
    /\ pc' = IF input_ext' \in ConvertExts THEN "mkstemp" ELSE "load"
    /\ UNCHANGED <<argv, inputExists, audio_path, tempExists, ffmpegCalls,
                   modelLoaded, transcribed, transcript, transcription_time,
                   word_count, feedback, exc, stdout, stderr, exit_code>>

\* lines 21-23
InputExt ==
    /\ pc = "ext"
    /\ input_ext' = ToLower(SplitExt(audio_path))
    /\ temp_wav_path' = None
    /\ pc' = IF input_ext' \in ConvertExts THEN "mkstemp" ELSE "load"
    /\ UNCHANGED <<argv, inputExists, audio_path, tempExists, ffmpegCalls,
                   modelLoaded, transcribed, transcript, transcription_time,
                   word_count, feedback, exc, stdout, stderr, exit_code>>

\* lines 25-26
MkTemp ==
    /\ pc = "mkstemp"
    /\ temp_wav_path' = TempPath
    /\ tempExists' = TRUE
    /\ pc' = "ffmpeg"
    /\ UNCHANGED <<argv, inputExists, audio_path, input_ext, ffmpegCalls,
                   modelLoaded, transcribed, transcript, transcription_time,
                   word_count, feedback, exc, stdout, stderr, exit_code>>

\* RunFfmpeg with the non-zero exit swallowed: the script goes on with the
\* caller's file
RunFfmpegSwallowsFailure ==
    /\ pc = "ffmpeg"
    /\ ffmpegCalls' = ffmpegCalls + 1
    /\ \E outcome \in {"ok", "notfound", "nonzero"} :
         /\ outcome = "ok" => inputExists
         /\ CASE outcome = "ok" ->
                   /\ audio_path' = temp_wav_path
                   /\ pc' = "load"
                   /\ UNCHANGED exc
              [] outcome = "notfound" ->
                   /\ Raise(FfmpegMissingMsg)
                   /\ UNCHANGED audio_path
              [] outcome = "nonzero" ->
                   /\ pc' = "load"
                   /\ UNCHANGED <<audio_path, exc>>
    /\ UNCHANGED <<argv, inputExists, input_ext, temp_wav_path, tempExists,
                   modelLoaded, transcribed, transcript, transcription_time,
                   word_count, feedback, stdout, stderr, exit_code>>

\* lines 28-36: ffmpeg converts, is not on PATH, or exits non-zero (as it does
\* when the input file is missing)
RunFfmpeg ==
    /\ pc = "ffmpeg"
    /\ ffmpegCalls' = ffmpegCalls + 1
    /\ \E outcome \in {"ok", "notfound", "nonzero"} :
         /\ outcome = "ok" => inputExists
         /\ CASE outcome = "ok" ->
                   /\ audio_path' = temp_wav_path
                   /\ pc' = "load"
                   /\ UNCHANGED exc
              [] outcome = "notfound" ->
                   /\ Raise(FfmpegMissingMsg)
                   /\ UNCHANGED audio_path
              [] outcome = "nonzero" ->
                   /\ Raise(FfmpegFailedPrefix
                              \o CalledProcessErrorMsg(audio_path, temp_wav_path))
                   /\ UNCHANGED audio_path
    /\ UNCHANGED <<argv, inputExists, input_ext, temp_wav_path, tempExists,
                   modelLoaded, transcribed, transcript, transcription_time,
                   word_count, feedback, stdout, stderr, exit_code>>

\* lines 39-42
LoadModel ==
    /\ pc = "load"
    /\ \E ok \in BOOLEAN :
         IF ok
         THEN /\ modelLoaded' = TRUE
              /\ stderr' = stderr \o << Diag("Starting Whisper transcription", ""),
                                        Diag("Whisper model loaded", "") >>
              /\ pc' = "transcribe"
              /\ UNCHANGED exc
         ELSE /\ stderr' = Append(stderr, Diag("Starting Whisper transcription", ""))
              /\ \E msg \in ModelLoadErrors : Raise(msg)
              /\ UNCHANGED modelLoaded
    /\ UNCHANGED <<argv, inputExists, audio_path, input_ext, temp_wav_path,
                   tempExists, ffmpegCalls, transcribed, transcript,
                   transcription_time, word_count, feedback, stdout, exit_code>>

\* whether the file model.transcribe is given can be opened
Readable(p) == IF p = temp_wav_path THEN tempExists ELSE inputExists

\* lines 44-54: the call and the consumption of the segments it yields
Transcribe ==
    /\ pc = "transcribe"
    /\ transcribed' = Append(transcribed, audio_path)
    /\ \/ /\ Readable(audio_path)
          /\ \E segments \in SegmentLists :
               /\ transcript' = Strip(Join(segments))
               /\ stderr' = Append(stderr, Diag("Transcription completed",
                                                Len(transcript')))
          /\ pc' = "feedback"
          /\ UNCHANGED exc
       \/ /\ Readable(audio_path)
          /\ \E msg \in TranscribeErrors : Raise(msg)
          /\ UNCHANGED <<transcript, stderr>>
       \/ /\ ~Readable(audio_path)
          /\ Raise(NoSuchFileMsg(audio_path))
          /\ UNCHANGED <<transcript, stderr>>
    /\ UNCHANGED <<argv, inputExists, audio_path, input_ext, temp_wav_path,
                   tempExists, ffmpegCalls, modelLoaded, transcription_time,
                   word_count, feedback, stdout, exit_code>>

\* lines 56-68
Feedback ==
    /\ pc = "feedback"
    /\ transcription_time' \in Elapsed
    /\ word_count' = SplitCount(transcript)
    /\ feedback' = Heuristic(transcript, word_count')
    /\ pc' = "output"
    /\ UNCHANGED <<argv, inputExists, audio_path, input_ext, temp_wav_path,
                   tempExists, ffmpegCalls, modelLoaded, transcribed, transcript,
                   exc, stdout, stderr, exit_code>>

\* lines 71-77
WriteOutput ==
    /\ pc = "output"
    /\ \E pt \in Round2(transcription_time) :
         stdout' = Append(stdout, Json(Output(transcript, feedback, pt, word_count)))
    /\ pc' = "cleanup"
    /\ UNCHANGED <<argv, inputExists, audio_path, input_ext, temp_wav_path,
                   tempExists, ffmpegCalls, modelLoaded, transcribed, transcript,
                   transcription_time, word_count, feedback, exc, stderr,
                   exit_code>>

\* Cleanup without the try/except around os.remove: a failed removal raises
CleanupRaises ==
    /\ pc = "cleanup"
    /\ IF Truthy(temp_wav_path) /\ tempExists
       THEN \E removed \in BOOLEAN :
              IF removed
              THEN /\ tempExists' = FALSE
                   /\ pc' = "done"
                   /\ exit_code' = 0
                   /\ UNCHANGED exc
              ELSE /\ Raise("[Errno 13] Permission denied: '" \o temp_wav_path \o "'")
                   /\ UNCHANGED <<tempExists, exit_code>>
       ELSE /\ pc' = "done"
            /\ exit_code' = 0
            /\ UNCHANGED <<tempExists, exc>>
    /\ UNCHANGED <<argv, inputExists, audio_path, input_ext, temp_wav_path,
                   ffmpegCalls, modelLoaded, transcribed, transcript,
                   transcription_time, word_count, feedback, stdout, stderr>>

\* lines 80-84, then the end of the script; os.remove may fail, which is ignored
Cleanup ==
    /\ pc = "cleanup"
    /\ IF Truthy(temp_wav_path) /\ tempExists
       THEN \E removed \in BOOLEAN : tempExists' = ~removed
       ELSE UNCHANGED tempExists
    /\ pc' = "done"
    /\ exit_code' = 0
    /\ UNCHANGED <<argv, inputExists, audio_path, input_ext, temp_wav_path,
                   ffmpegCalls, modelLoaded, transcribed, transcript,
                   transcription_time, word_count, feedback, exc, stdout, stderr>>

\* Except without sys.exit(1): the script ends normally after the error JSON
ExceptExitsZero ==
    /\ pc = "except"
    /\ stdout' = Append(stdout, Json(ErrorOutput(exc)))
    /\ exit_code' = 0
    /\ pc' = "done"
    /\ UNCHANGED <<argv, inputExists, audio_path, input_ext, temp_wav_path,
                   tempExists, ffmpegCalls, modelLoaded, transcribed, transcript,
                   transcription_time, word_count, feedback, exc, stderr>>

\* lines 86-109
Except ==
    /\ pc = "except"
    /\ stdout' = Append(stdout, Json(ErrorOutput(exc)))
    /\ exit_code' = 1
    /\ pc' = "done"
    /\ UNCHANGED <<argv, inputExists, audio_path, input_ext, temp_wav_path,
                   tempExists, ffmpegCalls, modelLoaded, transcribed, transcript,
                   transcription_time, word_count, feedback, exc, stderr>>

Next ==
    \/ Import
    \/ ReadArgs
    \/ DebugLog
    \/ InputExt
    \/ MkTemp
    \/ RunFfmpeg
    \/ LoadModel
    \/ Transcribe
    \/ Feedback
    \/ WriteOutput
    \/ Cleanup
    \/ Except

Spec == Init /\ [][Next]_vars

(***************************************************************************)
(* Vocabulary of the properties.                                           *)
(***************************************************************************)
Exited == exit_code # Running
IsErrorObj(o) == "error" \in DOMAIN o
JsonAt(i) == stdout[i].kind = "json"
ErrorAt(i) == JsonAt(i) /\ IsErrorObj(stdout[i].obj)
SuccessAt(i) == JsonAt(i) /\ ~IsErrorObj(stdout[i].obj)
ErrorPrinted == \E i \in 1..Len(stdout) : ErrorAt(i)
SuccessPrinted == \E i \in 1..Len(stdout) : SuccessAt(i)

\* the interpreter ended the run at the imports, before the try block
ImportFailed == \E i \in 1..Len(stderr) : stderr[i].text = "Traceback"
PipelineReached == pc # "import" /\ ~ImportFailed

\* the caller's audio path has one of the extensions that are converted
NeedsConversion ==
    /\ Len(argv) >= 3
    /\ ToLower(SplitExt(argv[2])) \in ConvertExts

\* ffmpeg was run and did not produce the converted file
ConversionFailed == ffmpegCalls > 0 /\ pc # "ffmpeg" /\ audio_path # TempPath
ConversionSucceeded == ffmpegCalls > 0 /\ pc # "ffmpeg" /\ audio_path = TempPath

(***************************************************************************)
(* C1.  For an audio path whose extension requires conversion, the         *)
(* temporary converted file does not exist once the process has exited,    *)
(* whether the run succeeded or failed.                                    *)
(***************************************************************************)
C1_TempFileGoneAfterExit ==
    (Exited /\ NeedsConversion) => ~tempExists

(***************************************************************************)
(* C2.  Every failure, a failed import of the speech-recognition library   *)
(* included, is reported exactly once: one error JSON on standard output   *)
(* and a non-zero exit status.                                             *)
(***************************************************************************)
C2_EveryFailureReportedOnce ==
    (Exited /\ exit_code # 0) =>
        /\ Len(stdout) = 1
        /\ ErrorAt(1)

(***************************************************************************)
(* C3.  Each invocation produces exactly one result object on standard     *)
(* output: the success JSON with exit status 0, or the error JSON with a   *)
(* non-zero status, never both and never crossed.                          *)
(***************************************************************************)
C3_ExactlyOneResult ==
    /\ ~(SuccessPrinted /\ ErrorPrinted)
    /\ Exited =>
        /\ Len(stdout) = 1
        /\ JsonAt(1)
        /\ SuccessAt(1) <=> exit_code = 0
        /\ ErrorAt(1) <=> exit_code # 0

(***************************************************************************)
(* C4.  With N the number of whitespace-separated words of the transcript, *)
(* the feedback is chosen by fixed priority: N < 10 the "more detailed"    *)
(* message; else N > 100 the "more concise" message; else a transcript     *)
(* holding "experience" or "project" in any case the "specific experience" *)
(* message; else the generic message.  word_count of the output is N.      *)
(***************************************************************************)
\* N, counted at the ends of the words
WordEnds(t) ==
    Cardinality({i \in 1..Len(t) :
                    /\ ~IsSpace(Chr(t, i))
                    /\ (i = Len(t) \/ IsSpace(Chr(t, i + 1)))})

HasKeyword(t) ==
    \E k \in {"experience", "project"} : Contains(ToLower(t), k)

C4_Expected(t) ==
    LET N == WordEnds(t)
    IN  CASE N < 10 -> FeedbackShort
          [] N > 100 -> FeedbackLong
          [] N >= 10 /\ N <= 100 /\ HasKeyword(t) -> FeedbackKeyword
          [] OTHER -> FeedbackDefault

C4_FeedbackPriority ==
    \A i \in 1..Len(stdout) :
        SuccessAt(i) =>
            /\ stdout[i].obj.word_count = WordEnds(stdout[i].obj.transcript)
            /\ stdout[i].obj.feedback = C4_Expected(stdout[i].obj.transcript)
            /\ (stdout[i].obj.feedback = FeedbackKeyword
                    => stdout[i].obj.word_count \in 10..100)

\* a keyword in a transcript of more than 100 words got the "concise" message
C4_Witness ==
    \E i \in 1..Len(stdout) :
        /\ SuccessAt(i)
        /\ HasKeyword(stdout[i].obj.transcript)
        /\ stdout[i].obj.word_count > 100
        /\ stdout[i].obj.feedback = FeedbackLong

(***************************************************************************)
(* C5.  When conversion is required and ffmpeg cannot be located or exits  *)
(* non-zero, processing is aborted: the model is never loaded,             *)
(* transcription is never invoked, no success JSON is printed, and the run *)
(* ends with an error JSON and a non-zero exit status.                     *)
(***************************************************************************)
C5_ConversionFailureAborts ==
    ConversionFailed =>
        /\ ~modelLoaded
        /\ transcribed = <<>>
        /\ ~SuccessPrinted
        /\ \/ pc = "except" /\ ~Exited
           \/ /\ pc = "done"
              /\ exit_code # 0
              /\ Len(stdout) = 1
              /\ ErrorAt(1)

\* ffmpeg exited non-zero and the run ended with the error JSON
C5_Witness ==
    /\ ConversionFailed
    /\ Contains(exc, FfmpegFailedPrefix)
    /\ pc = "done"
    /\ ErrorPrinted

(***************************************************************************)
(* C6.  Every error JSON has transcript "", word_count 0 and               *)
(* processing_time 0, and the process that printed it exits non-zero.      *)
(***************************************************************************)
C6_ErrorObjectShape ==
    \A i \in 1..Len(stdout) :
        ErrorAt(i) =>
            /\ stdout[i].obj.transcript = ""
            /\ stdout[i].obj.word_count = 0
            /\ stdout[i].obj.processing_time = 0
            /\ Exited
            /\ exit_code # 0

\* the error JSON of a run that failed in transcription, on a missing file
C6_Witness ==
    /\ ErrorPrinted
    /\ modelLoaded
    /\ transcribed # <<>>
    /\ ~inputExists

(***************************************************************************)
(* C7.  In a run that reaches the pipeline, standard output holds nothing  *)
(* but the single result JSON; the diagnostics go to standard error.       *)
(***************************************************************************)
C7_StdoutIsResultOnly ==
    PipelineReached =>
        /\ \A i \in 1..Len(stdout) : JsonAt(i)
        /\ Len(stdout) <= 1
        /\ Exited => Len(stdout) = 1
        /\ \A i \in 1..Len(stderr) : stderr[i].kind = "diag"
        /\ pc \in {"ext", "mkstemp", "ffmpeg", "load"} => Len(stderr) = 4
        /\ pc = "transcribe" => Len(stderr) = 6
        /\ pc \in {"feedback", "output", "cleanup"} => Len(stderr) = 7
        /\ SuccessPrinted => Len(stderr) = 7

\* a successful run: seven diagnostics on standard error, one line on output
C7_Witness ==
    /\ PipelineReached
    /\ pc = "done"
    /\ exit_code = 0
    /\ Len(stderr) = 7
    /\ Len(stdout) = 1

(***************************************************************************)
(* C8.  ffmpeg is run if and only if the lower-cased extension of the      *)
(* caller's audio path is .webm, .ogg, .m4a, .mp3 or .opus, and at most    *)
(* once; without conversion no temporary file is made and transcription    *)
(* gets the caller's path; after a successful conversion transcription     *)
(* gets the temporary file and never the caller's path.                    *)
(***************************************************************************)
PastNormalization ==
    \/ pc \in {"load", "transcribe", "feedback", "output", "cleanup"}
    \/ modelLoaded
    \/ SuccessPrinted

C8_ConversionIffExtension ==
    /\ ffmpegCalls <= 1
    /\ Len(transcribed) <= 1
    /\ ffmpegCalls = 1 => NeedsConversion
    /\ (PastNormalization /\ NeedsConversion) => ffmpegCalls = 1
    /\ ~NeedsConversion =>
          /\ ~tempExists
          /\ temp_wav_path \in {Unset, None}
          /\ \A i \in 1..Len(transcribed) : transcribed[i] = argv[2]
    /\ ConversionSucceeded =>
          \A i \in 1..Len(transcribed) :
              transcribed[i] = TempPath /\ transcribed[i] # argv[2]

\* an upper-case extension was converted and the converted file transcribed
C8_Witness ==
    /\ Len(argv) >= 3
    /\ argv[2] = "REC.MP3"
    /\ transcribed = <<TempPath>>

(***************************************************************************)
(* C9.  The temporary file is created, and the conversion done, before     *)
(* transcription starts; it exists throughout transcription; it is removed *)
(* only after the success JSON was printed; and a failed removal is        *)
(* ignored: the run still ends with the success JSON and exit status 0.    *)
(***************************************************************************)
C9_HeldThroughTranscription ==
    /\ (pc = "transcribe" /\ NeedsConversion) =>
          /\ tempExists
          /\ ffmpegCalls = 1
          /\ audio_path = temp_wav_path
    /\ (NeedsConversion /\ transcribed # <<>> /\ ~SuccessPrinted) => tempExists
    /\ (pc = "done" /\ SuccessPrinted) =>
          /\ exit_code = 0
          /\ ~ErrorPrinted
          /\ Len(stdout) = 1

C9_RemovedOnlyAfterOutput ==
    (tempExists /\ ~tempExists') => (SuccessPrinted /\ pc = "cleanup")

C9_AcquireReleaseOrder ==
    /\ []C9_HeldThroughTranscription
    /\ [][C9_RemovedOnlyAfterOutput]_vars

\* the removal failed after a successful converted run, and the run exited 0
C9_Witness ==
    /\ pc = "done"
    /\ exit_code = 0
    /\ transcribed = <<TempPath>>
    /\ SuccessPrinted
    /\ tempExists

(***************************************************************************)
(* C10.  The error text is the first match of 'No module named', 'FFmpeg', *)
(* 'No such file', 'timeout' in any case, else the generic text.  As       *)
(* claimed: ffmpeg exiting non-zero and ffmpeg not being found give the    *)
(* same text 'FFmpeg not found. Please install FFmpeg.', without the       *)
(* detail of the failure.                                                  *)
(***************************************************************************)
FfmpegText == "FFmpeg not found. Please install FFmpeg."

C10_ConversionFailuresSameText ==
    \A i \in 1..Len(stdout) :
        (ErrorAt(i) /\ ConversionFailed) =>
            /\ stdout[i].obj.error = FfmpegText
            /\ ~Contains(stdout[i].obj.error, "returned non-zero exit status")

(***************************************************************************)
(* C10, amended.  The error text is the first match of the ordered tests   *)
(* on the exception message.  ffmpeg not being found gives the text        *)
(* 'FFmpeg not found. Please install FFmpeg.'; ffmpeg exiting non-zero     *)
(* gives the same text unless the exception message, which quotes the      *)
(* ffmpeg command line with the audio path in it, holds 'No module named': *)
(* then the first test matches and the text is 'Missing dependency: '      *)
(* followed by the whole message, detail included.                         *)
(***************************************************************************)
C10_Expected(msg) ==
    LET m1 == Contains(msg, "No module named")
        m2 == Contains(msg, "FFmpeg")
        m3 == Contains(msg, "No such file")
        m4 == Contains(ToLower(msg), "timeout")
    IN  CASE m1 -> "Missing dependency: " \o msg
          [] ~m1 /\ m2 -> FfmpegText
          [] ~m1 /\ ~m2 /\ m3 -> "Audio file not found or corrupted."
          [] ~m1 /\ ~m2 /\ ~m3 /\ m4 -> "Processing timeout. Try a shorter recording."
          [] OTHER -> "Audio processing error: " \o msg

C10_ErrorTextFirstMatch ==
    /\ Cardinality({i \in 1..Len(stdout) : ErrorAt(i)}) <= 1
    /\ \A i \in 1..Len(stdout) :
        ErrorAt(i) =>
            /\ stdout[i].obj.error = C10_Expected(exc)
            /\ exc = FfmpegMissingMsg => stdout[i].obj.error = FfmpegText
            /\ ConversionFailed =>
                  IF Contains(exc, "No module named")
                  THEN /\ stdout[i].obj.error = "Missing dependency: " \o exc
                       /\ Contains(stdout[i].obj.error, "returned non-zero exit status")
                  ELSE stdout[i].obj.error = FfmpegText

\* ffmpeg exited non-zero on a path holding 'No module named'
C10_Witness ==
    /\ ErrorPrinted
    /\ ConversionFailed
    /\ Contains(exc, FfmpegFailedPrefix)
    /\ Contains(exc, "No module named")

====
